---- MODULE Spec2Model ----
(***************************************************************************)
(* The download engine of server/src/ytdlp.rs: the job registry            *)
(* (YtdlpClient.downloads), the per-job supervisor                         *)
(* (download_from_options), the control-signal protocol (cancel_download,  *)
(* pause_download), the availability precheck and the cancellation         *)
(* cleanup.  The server runs on the multi-threaded tokio runtime           *)
(* (main.rs, #[tokio::main]), so every access to shared state (the         *)
(* DashMap, a channel, the child process, the download directory) is a     *)
(* step of its own and steps of different tasks interleave freely.         *)
(***************************************************************************)
EXTENDS Naturals, Sequences, FiniteSets

\* ------------------------------------------------------------------ bounds

\* Tasks the server runs over its life: invocations of download_from_options
\* and of cancel_download / pause_download, in any mix.
MaxTasks == 3
\* Capacity of the progress channel the caller hands in (caller's choice).
UpdateCap == 1
\* Progress lines a child prints to a supervisor that publishes them.
MaxLines == 2
\* Tasks the server runs while a supervisor that publishes is at work.
MaxProgressTasks == 2

\* mpsc::channel(100): capacity of a job's control-signal channel.
KillChannelCapacity == 100

Runs == 1..MaxTasks
Calls == 1..MaxTasks

\* Job keys.  "u2" is a target the downloader cannot fetch: for it
\* `yt-dlp --simulate` exits unsuccessfully.
Urls == {"u1", "u2"}
UnavailableUrls == {"u2"}
NoUrl == "-"

\* The DownloadOptions a client submits with each url (opaque to the engine
\* but for name_format, which the dry run's answer stands for).
RequestOptions(k) == IF k = "u1" THEN "o1" ELSE "o2"
NoOptions == "-"

\* Sender<Signal> handles: the sender of run r's channel is r; None is 0.
NoTx == 0

\* ------------------------------------------------------------ file names

\* Names are sequences of characters, so that String::contains is computed.
NameA == <<"a">>
NameAPart == <<"a", "p">>
NameB == <<"b">>
NameWarn == <<"w">>
Empty == <<>>

\* Entries the download directory may hold: a partial file of video "a" and
\* an unrelated file.
FileNames == {NameAPart, NameB}

\* What `yt-dlp --get-filename` may print on stdout (a sequence of lines):
\* nothing, or a warning followed by the name.
DryRunStdouts == {<<>>, <<NameWarn, NameA>>}

\* str::contains: needle occurs in hay as a contiguous substring.
Contains(hay, needle) ==
  \E i \in 0..Len(hay) :
    /\ i + Len(needle) <= Len(hay)
    /\ SubSeq(hay, i + 1, i + Len(needle)) = needle

\* ------------------------------------------------------------ output lines

\* Lines are sequences of characters, so that the progress pattern
\* (YTDLP_DOWNLOAD_UPDATE_REGEX) is computed on them.
LineTilde ==
  <<"[", "d", "o", "w", "n", "l", "o", "a", "d", "]", " ", "1", "2", ".", "3", "%",
    " ", "o", "f", " ", "~", " ", "1", "0", ".", "0", "0", "M", "i", "B", " ", "a",
    "t", " ", "1", ".", "2", "0", "M", "i", "B", "/", "s", " ", "E", "T", "A", " ",
    "0", "0", ":", "0", "5">>
LineSingleSpace ==
  <<"[", "d", "o", "w", "n", "l", "o", "a", "d", "]", " ", "1", "0", "0", "%", " ",
    "o", "f", " ", "5", ".", "0", "0", "M", "i", "B", " ", "a", "t", " ", "9", "0",
    "0", ".", "0", "0", "K", "i", "B", "/", "s", " ", "E", "T", "A", " ", "U", "n",
    "k", "n", "o", "w", "n">>
LineNoMarker ==
  <<"D", "e", "l", "e", "t", "i", "n", "g", " ", "a", ".", "p", "a", "r", "t">>

\* Lines the child may print.
OutputLines == {LineTilde, LineSingleSpace, LineNoMarker}

\* Pieces of progress lines, and the lines made of them.
Marker == <<"[", "d", "o", "w", "n", "l", "o", "a", "d", "]">>
Unknown == <<"U", "n", "k", "n", "o", "w", "n">>
Percents == {<<"1", "0", "0">>, <<"1", "2", ".", "3">>}
Gaps == {<<" ">>, <<" ", " ">>, <<" ", "~", " ">>, <<" ", "~">>}
Sizes == {<<"5", ".", "0", "0", "M", "i", "B">>,
          <<"1", "0", ".", "0", "0", "M", "i", "B">>}
Speeds == {<<"9", "0", "0", ".", "0", "0", "K", "i", "B", "/", "s">>,
           <<"1", ".", "2", "0", "M", "i", "B", "/", "s">>}
Etas == {Unknown, <<"0", "0", ":", "0", "5">>}

LineOf(percent, gap, size, speed, eta) ==
  Marker \o <<" ">> \o percent \o <<"%", " ", "o", "f">> \o gap \o size
    \o <<" ", "a", "t", " ">> \o speed \o <<" ", "E", "T", "A", " ">> \o eta

ProgressLikeLines ==
  {LineOf(percent, gap, size, speed, eta) :
     percent \in Percents, gap \in Gaps, size \in Sizes, speed \in Speeds, eta \in Etas}

\* ------------------------------------------------------ progress pattern

Digits == {"0", "1", "2", "3", "4", "5", "6", "7", "8", "9"}
Whitespace == {" "}
UnitPrefixes == {"G", "M", "K"}

\* How many characters of `line` from position p on are in S.
RECURSIVE Run(_, _, _)
Run(line, p, S) ==
  IF p >= 1 /\ p <= Len(line) /\ line[p] \in S THEN 1 + Run(line, p + 1, S) ELSE 0

\* The literal `lit` stands in `line` at position p.
At(line, p, lit) ==
  /\ p >= 1
  /\ p + Len(lit) - 1 <= Len(line)
  /\ SubSeq(line, p, p + Len(lit) - 1) = lit

\* The matchers below take the position p at which a piece of the pattern
\* must start (0: the match has already failed) and give the position after
\* the piece, or 0.  Each piece is followed in the pattern by a character it
\* cannot itself match, so the longest match of a piece is the only one that
\* can be continued and no backtracking is left out.

\* A literal.
Lit(line, p, lit) == IF p # 0 /\ At(line, p, lit) THEN p + Len(lit) ELSE 0

\* \s+
Spaces(line, p) ==
  IF p # 0 /\ Run(line, p, Whitespace) > 0 THEN p + Run(line, p, Whitespace) ELSE 0

\* [GMK]
UnitPrefix(line, p) ==
  IF p # 0 /\ p <= Len(line) /\ line[p] \in UnitPrefixes THEN p + 1 ELSE 0

\* \d+\.\d+
Decimal(line, p) ==
  LET a == Run(line, p, Digits)
      b == Run(line, p + a + 1, Digits)
  IN IF p # 0 /\ a > 0 /\ At(line, p + a, <<".">>) /\ b > 0 THEN p + a + 1 + b ELSE 0

\* \d+(?:\.\d+)?
Number(line, p) ==
  IF p = 0 \/ Run(line, p, Digits) = 0 THEN 0
  ELSE IF Decimal(line, p) # 0 THEN Decimal(line, p)
  ELSE p + Run(line, p, Digits)

\* \s+~?\s+? before the size: with a "~" at least one blank on either side
\* of it, without one at least two blanks.
Gap(line, p) ==
  LET n == Run(line, p, Whitespace)
  IN IF p = 0 \/ n = 0 THEN 0
     ELSE IF At(line, p + n, <<"~">>) THEN Spaces(line, p + n + 1)
     ELSE IF n >= 2 THEN p + n
     ELSE 0

\* \d+(?:\.\d+)?[GMK]iB
Size(line, p) == Lit(line, UnitPrefix(line, Number(line, p)), <<"i", "B">>)

\* \d+\.\d+(?:[GMK]i)?B\/s
Speed(line, p) ==
  LET d == Decimal(line, p)
      u == Lit(line, UnitPrefix(line, d), <<"i">>)
  IN Lit(line, IF u # 0 THEN u ELSE d, <<"B", "/", "s">>)

\* (\d+:\d+)|(?:Unknown)
Eta(line, p) ==
  LET a == Run(line, p, Digits)
      b == Run(line, p + a + 1, Digits)
  IN IF p = 0 THEN 0
     ELSE IF a > 0 /\ At(line, p + a, <<":">>) /\ b > 0 THEN p + a + 1 + b
     ELSE Lit(line, p, Unknown)

\* regex.captures when nothing matches, and the four groups of a match.
NoCaptures == [matched |-> FALSE, c1 |-> Empty, c2 |-> Empty, c3 |-> Empty, c4 |-> Empty]

\* The pattern matched from position i on.
MatchAt(line, i) ==
  LET p1 == Spaces(line, Lit(line, i, Marker))
      p2 == Number(line, p1)
      p3 == Gap(line, Lit(line, Spaces(line, Lit(line, p2, <<"%">>)), <<"o", "f">>))
      p4 == Size(line, p3)
      p5 == Spaces(line, Lit(line, Spaces(line, p4), <<"a", "t">>))
      p6 == Speed(line, p5)
      p7 == Spaces(line, Lit(line, Spaces(line, p6), <<"E", "T", "A">>))
      p8 == Eta(line, p7)
  IN IF p8 = 0 THEN NoCaptures
     ELSE [matched |-> TRUE,
           c1 |-> SubSeq(line, p1, p2 - 1), c2 |-> SubSeq(line, p3, p4 - 1),
           c3 |-> SubSeq(line, p5, p6 - 1), c4 |-> SubSeq(line, p7, p8 - 1)]

\* Regex::captures: the pattern is not anchored; the leftmost match counts.
Captures(line) ==
  LET starts == {i \in 1..Len(line) : MatchAt(line, i).matched}
  IN IF starts = {} THEN NoCaptures
     ELSE MatchAt(line, CHOOSE i \in starts : \A j \in starts : i <= j)

\* The captures of every line of the model (the pattern is a function of the
\* line alone, so it is computed once per line).
KnownLines == OutputLines \cup ProgressLikeLines
CapturesOf == [l \in KnownLines |-> Captures(l)]

\* A DownloadProgress with the size and the speed exchanged.
DownloadProgressSwapped(url, captures) ==
  [url |-> url, percent |-> captures.c1, size_downloaded |-> captures.c3,
   speed |-> captures.c2, eta |-> captures.c4]

\* Lines 248-260: the DownloadProgress built from the groups, copied as they
\* stand.
DownloadProgress(url, captures) ==
  [url |-> url, percent |-> captures.c1, size_downloaded |-> captures.c2,
   speed |-> captures.c3, eta |-> captures.c4]

\* What reader.next_line().await gives: a line, the end of the stream, or an
\* error.
SomeLine(l) == [ok |-> TRUE, some |-> TRUE, line |-> l]
EndOfStream == [ok |-> TRUE, some |-> FALSE, line |-> Empty]
ReadError == [ok |-> FALSE, some |-> FALSE, line |-> Empty]
NextLineResults == {SomeLine(l) : l \in OutputLines} \cup {EndOfStream, ReadError}

\* ------------------------------------------------------------------ state

VARIABLES
  downloads,        \* YtdlpClient.downloads: url -> Download {status, options, tx}
  dir,              \* entries of the download directory (download_path)
  sup,              \* per download_from_options task: its position, arguments and locals
  child,            \* per task: its child process
  kill_queue,       \* per task: signals in flight in its control channel
  kill_rx_alive,    \* per task: whether its download_kill_rx is held (not yet dropped)
  updates,          \* messages queued in the progress channel
  update_rx_alive,  \* whether the progress channel still has its receiver
  call,             \* per cancel_download / pause_download task: position and locals
  acked,            \* per url: a signal was acknowledged and no submission followed
  delivered         \* per task: number of the last of its records the subscriber took

vars == <<downloads, dir, sup, child, kill_queue, kill_rx_alive, updates,
          update_rx_alive, call, acked, delivered>>

Statuses == {"Canceled", "Checking", "Completed", "Failed", "None", "Paused", "Running"}
Signals == {"Cancel", "Pause"}

Download(st, opts, tx) == [status |-> st, options |-> opts, tx |-> tx]
NoDownload == Download("None", NoOptions, NoTx)

\* A remove that emptied the map.
Clear(map, k) == [x \in {} |-> map[x]]

\* A remove that handed the record out and left it in the map.
Keep(map, k) == map

\* DashMap::insert and DashMap::remove.
Insert(map, k, rec) == [x \in DOMAIN map \cup {k} |-> IF x = k THEN rec ELSE map[x]]
Remove(map, k) == [x \in DOMAIN map \ {k} |-> map[x]]

NoName == [some |-> FALSE, name |-> Empty]
SomeName(n) == [some |-> TRUE, name |-> n]

\* A download_from_options task: pc is its position; url, options and
\* update_tx (whether download_update_tx is Some) are its arguments;
\* received_signal, line and download_file_name are its locals; scan records
\* how its cleanup scan went; returned is the value the call returned; seq
\* numbers the progress lines it has read for sending.
\* Locals are dropped when the task returns or has unwound from a panic.
IdleSup ==
  [pc |-> "idle", url |-> NoUrl, options |-> NoOptions, update_tx |-> FALSE,
   received_signal |-> "None", line |-> Empty, seq |-> 0,
   download_file_name |-> NoName, scan |-> "none", returned |-> "-"]

\* A cancel_download / pause_download task: the signal it sends, its url
\* argument, the Download it removed from the map and holds, its result.
IdleCall ==
  [pc |-> "idle", signal |-> "-", url |-> NoUrl, held |-> NoDownload, res |-> "-"]

\* Tasks started so far.
Started ==
  Cardinality({r \in Runs : sup[r].pc # "idle"})
    + Cardinality({c \in Calls : call[c].pc # "idle"})

\* How many tasks may start, with and without a publishing supervisor.
TaskLimit(publishing) == IF publishing THEN MaxProgressTasks ELSE MaxTasks

Init ==
  /\ downloads = [x \in {} |-> NoDownload]
  /\ dir = FileNames
  /\ sup = [r \in Runs |-> IdleSup]
  /\ child = [r \in Runs |-> "none"]
  /\ kill_queue = [r \in Runs |-> <<>>]
  /\ kill_rx_alive = [r \in Runs |-> FALSE]
  /\ updates = <<>>
  /\ update_rx_alive = TRUE
  /\ call = [c \in Calls |-> IdleCall]
  /\ acked = [k \in Urls |-> FALSE]
  /\ delivered = [r \in Runs |-> 0]

\* ---------------------------------------------- download_from_options

\* Lines 141-151: create the control channel and insert the record.  The
\* insert is unconditional: whatever the map held for the url is replaced.
Submit(r, k, utx) ==
  /\ sup[r].pc = "idle"
  /\ \A q \in Runs : q < r => sup[q].pc # "idle"
  /\ Started < TaskLimit(utx)
  /\ sup' = [sup EXCEPT ![r] = [@ EXCEPT !.pc = "spawn", !.url = k,
                                         !.options = RequestOptions(k),
                                         !.update_tx = utx]]
  /\ kill_rx_alive' = [kill_rx_alive EXCEPT ![r] = TRUE]
  /\ downloads' = Insert(downloads, k, Download("Running", RequestOptions(k), r))
  /\ acked' = [acked EXCEPT ![k] = FALSE]
  /\ UNCHANGED <<dir, child, kill_queue, updates, update_rx_alive, call, delivered>>

\* What is left of a task that returned `value` or panicked (value "-").
Ended(s, how, value) == [IdleSup EXCEPT !.pc = how, !.url = s.url, !.returned = value]

\* Lines 154-164: Command::spawn().unwrap().  A failed spawn panics the task;
\* unwinding drops download_kill_rx, the record stays in the map.
Spawn(r, ok) ==
  /\ sup[r].pc = "spawn"
  /\ sup' = [sup EXCEPT ![r] = IF ok THEN [@ EXCEPT !.pc = "reading"]
                                ELSE Ended(@, "panicked", "-")]
  /\ child' = [child EXCEPT ![r] = IF ok THEN "running" ELSE "none"]
  /\ kill_rx_alive' = [kill_rx_alive EXCEPT ![r] = ok]
  /\ UNCHANGED <<downloads, dir, kill_queue, updates, update_rx_alive, call, acked, delivered>>

\* A pattern that took every line for a progress line.
IsProgressAlways(l) == TRUE

\* Regex::is_match on an output line (lines 176, 246).
IsProgress(l) == CapturesOf[l].matched

\* A supervisor that ran the cleanup for whatever signal it consumed.
CleanupOnAnySignal(signal) == TRUE

\* Lines 211-240: the cleanup runs for Signal::Cancel, nothing for Signal::Pause.
ShouldCleanup(signal) == signal = "Cancel"

\* A read loop that matched and published the line before polling the
\* control channel: a progress line goes to the send although a signal waits.
ReadLineParseFirst(r, out) ==
  /\ sup[r].pc = "reading"
  /\ out = EndOfStream => child[r] # "running"
  /\ (sup[r].update_tx /\ out.some /\ CapturesOf[out.line].matched) => sup[r].seq < MaxLines
  /\ kill_queue' = kill_queue
  /\ IF ~(out.ok /\ out.some)
     THEN sup' = [sup EXCEPT ![r].pc = "wait"]
     ELSE IF sup[r].update_tx /\ CapturesOf[out.line].matched
     THEN sup' = [sup EXCEPT ![r] = [@ EXCEPT !.pc = "publish", !.line = out.line,
                                             !.seq = @ + 1]]
     ELSE sup' = sup
  /\ UNCHANGED <<downloads, dir, child, kill_rx_alive, updates, update_rx_alive, call,
                 acked, delivered>>

\* Lines 178-270, one iteration of the read loop up to its next await:
\* next_line() yields a line, the end of the stream or an error; on a line,
\* try_recv() polls the control channel; a waiting signal is taken and the
\* kill follows; otherwise the line is matched and, when it is a progress line
\* and the caller gave a sender, published.  A line may still sit in the pipe
\* after the child has exited; the stream ends only once the child is gone.
\* The child may print any number of lines.
ReadLine(r, out) ==
  /\ sup[r].pc = "reading"
  /\ out = EndOfStream => child[r] # "running"
  /\ (sup[r].update_tx /\ out.some /\ IsProgress(out.line)) => sup[r].seq < MaxLines
  /\ IF ~(out.ok /\ out.some)
     THEN /\ sup' = [sup EXCEPT ![r].pc = "wait"]
          /\ kill_queue' = kill_queue
     ELSE IF kill_queue[r] # <<>>
     THEN /\ sup' = [sup EXCEPT ![r] = [@ EXCEPT !.pc = "kill",
                                                 !.received_signal = Head(kill_queue[r])]]
          /\ kill_queue' = [kill_queue EXCEPT ![r] = Tail(@)]
     ELSE /\ kill_queue' = kill_queue
          /\ IF sup[r].update_tx /\ IsProgress(out.line)
             THEN sup' = [sup EXCEPT ![r] = [@ EXCEPT !.pc = "publish",
                                                     !.line = out.line,
                                                     !.seq = @ + 1]]
             ELSE sup' = sup
  /\ UNCHANGED <<downloads, dir, child, kill_rx_alive, updates, update_rx_alive, call,
                 acked, delivered>>

\* A message in the progress channel: the serialized DownloadProgress, with
\* the task it comes from and the number of its source line.
Update(r, n, progress) == [from |-> r, seq |-> n, progress |-> progress]

\* A supervisor that, having sent a record, stayed at the send with the
\* same line.
PublishAgain(r) ==
  /\ sup[r].pc = "publish"
  /\ update_rx_alive
  /\ Len(updates) < UpdateCap
  /\ updates' = Append(updates,
                       Update(r, sup[r].seq,
                              DownloadProgress(sup[r].url, CapturesOf[sup[r].line])))
  /\ UNCHANGED <<downloads, dir, sup, child, kill_queue, kill_rx_alive, update_rx_alive,
                 call, acked, delivered>>

\* Lines 262-265: download_update_tx.send(..).await.  The send waits while the
\* channel is full and fails once its receiver is gone; the result is dropped.
Publish(r) ==
  /\ sup[r].pc = "publish"
  /\ update_rx_alive => Len(updates) < UpdateCap
  /\ updates' = IF update_rx_alive
                THEN Append(updates,
                            Update(r, sup[r].seq,
                                   DownloadProgress(sup[r].url, CapturesOf[sup[r].line])))
                ELSE updates
  /\ sup' = [sup EXCEPT ![r] = [@ EXCEPT !.pc = "reading", !.line = Empty]]
  /\ UNCHANGED <<downloads, dir, child, kill_queue, kill_rx_alive, update_rx_alive,
                 call, acked, delivered>>

\* A supervisor that, after a Pause, went back to reading lines instead of
\* leaving the loop.
KillAndReadOn(r, killOk) ==
  /\ sup[r].pc = "kill"
  /\ child' = [child EXCEPT ![r] = IF killOk /\ @ = "running" THEN "killed" ELSE @]
  /\ sup' = [sup EXCEPT ![r].pc =
               IF sup[r].received_signal = "Cancel" THEN "cleanup" ELSE "reading"]
  /\ UNCHANGED <<downloads, dir, kill_queue, kill_rx_alive, updates, update_rx_alive,
                 call, acked, delivered>>

\* A supervisor that, when the kill failed, gave the cancellation up and
\* left the loop without the cleanup.
KillOrGiveUp(r, killOk) ==
  /\ sup[r].pc = "kill"
  /\ child' = [child EXCEPT ![r] = IF killOk /\ @ = "running" THEN "killed" ELSE @]
  /\ sup' = [sup EXCEPT ![r].pc =
               IF killOk /\ sup[r].received_signal = "Cancel" THEN "cleanup" ELSE "wait"]
  /\ UNCHANGED <<downloads, dir, kill_queue, kill_rx_alive, updates, update_rx_alive,
                 call, acked, delivered>>

\* Lines 187-209: child.kill().await, then child.wait().await when the kill
\* succeeded; both results are only logged.  Then the match on the signal
\* (line 211) either goes on to the cleanup or breaks out of the loop.
Kill(r, killOk) ==
  /\ sup[r].pc = "kill"
  /\ child' = [child EXCEPT ![r] = IF killOk /\ @ = "running" THEN "killed" ELSE @]
  /\ sup' = [sup EXCEPT ![r].pc =
               IF ShouldCleanup(sup[r].received_signal) THEN "cleanup" ELSE "wait"]
  /\ UNCHANGED <<downloads, dir, kill_queue, kill_rx_alive, updates, update_rx_alive,
                 call, acked, delivered>>

\* The child process of a task that is still supervising it ends on its own,
\* successfully or not.
ChildExit(r, ok) ==
  /\ child[r] = "running"
  /\ child' = [child EXCEPT ![r] = IF ok THEN "exit_ok" ELSE "exit_fail"]
  /\ UNCHANGED <<downloads, dir, sup, kill_queue, kill_rx_alive, updates,
                 update_rx_alive, call, acked, delivered>>

\* Lines 405-409: the loop keeps the last line of the dry run's stdout.
RECURSIVE LastLine(_, _)
LastLine(last_line, lines) ==
  IF lines = <<>> THEN last_line ELSE LastLine(Head(lines), Tail(lines))

\* get_filename: Some(last line) when the dry run could be launched and exited
\* successfully (the empty string when it printed nothing), None otherwise.
GetFilename(launched, exitOk, stdout) ==
  IF launched /\ exitOk THEN SomeName(LastLine(Empty, stdout)) ELSE NoName

\* Lines 217-229: of the entries the scan visits, those whose name contains
\* the resolved name are handed to fs::remove_file, whose error is dropped.
Removed(visited, name, undeletable) ==
  {f \in visited : Contains(f, name)} \ undeletable

\* How a scan went: the name was not resolved; read_dir failed; an entry
\* could not be read; a matching entry could not be removed; or all was done.
ScanResult(fname, readOk, entryErr, visited, undeletable) ==
  IF ~fname.some THEN "unresolved"
  ELSE IF ~readOk THEN "unreadable"
  ELSE IF entryErr THEN "aborted"
  ELSE IF \E f \in undeletable : Contains(f, fname.name) THEN "partial"
  ELSE "complete"

\* Lines 213-238, Signal::Cancel: resolve the file name, list the directory
\* and remove the matching entries.  Nothing is scanned when the name is None
\* or read_dir failed; an entry that cannot be read (or whose name is not
\* UTF-8) hits todo!() and panics the task after `visited` was handled.
Cleanup(r, fname, readOk, visited, entryErr, undeletable) ==
  /\ sup[r].pc = "cleanup"
  /\ LET listing == IF fname.some /\ readOk THEN dir ELSE {}
         result == ScanResult(fname, readOk, entryErr, visited, undeletable)
     IN /\ visited \subseteq listing
        /\ result # "aborted" => visited = listing
        /\ undeletable \subseteq visited
        /\ dir' = dir \ Removed(visited, fname.name, undeletable)
        /\ sup' = [sup EXCEPT ![r] = [@ EXCEPT !.download_file_name = fname,
                                               !.scan = result,
                                               !.pc = IF result = "aborted" THEN "unwind"
                                                      ELSE "wait"]]
  /\ UNCHANGED <<downloads, child, kill_queue, kill_rx_alive, updates, update_rx_alive,
                 call, acked, delivered>>

\* The cleanup under every answer of the dry run and of the file system.
CleanupStep(r) ==
  /\ sup[r].pc = "cleanup"
  /\ \E launched \in BOOLEAN, exitOk \in BOOLEAN, stdout \in DryRunStdouts,
        readOk \in BOOLEAN, entryErr \in BOOLEAN :
       \E visited \in SUBSET dir : \E undeletable \in SUBSET visited :
         Cleanup(r, GetFilename(launched, exitOk, stdout), readOk, visited, entryErr,
                 undeletable)

\* The child once its task has let go of it: still running, or gone.
Detached(c) == IF c = "running" THEN "orphan" ELSE "gone"

\* The panic of line 231/233 unwinds the task: its locals, download_kill_rx
\* among them, are dropped; the child handle is dropped without a kill.
Unwind(r) ==
  /\ sup[r].pc = "unwind"
  /\ sup' = [sup EXCEPT ![r] = Ended(@, "panicked", "-")]
  /\ child' = [child EXCEPT ![r] = Detached(@)]
  /\ kill_rx_alive' = [kill_rx_alive EXCEPT ![r] = FALSE]
  /\ UNCHANGED <<downloads, dir, kill_queue, updates, update_rx_alive, call, acked, delivered>>

\* Lines 273-285: the terminal status computed from the final wait.
TerminalStatus(waitOk, exitOk, received) ==
  IF waitOk
  THEN IF exitOk THEN "Completed"
       ELSE IF received = "Cancel" THEN "Canceled"
       ELSE IF received = "Pause" THEN "Paused"
       ELSE "Failed"
  ELSE "Failed"

\* Line 287: the value returned, whatever `status` holds.
ReturnValue(st) == "Completed"

\* Lines 273-288: child.wait().await (it returns once the child is gone, or
\* fails), the status, the return; download_kill_rx is dropped on return.
FinalWait(r, waitOk) ==
  /\ sup[r].pc = "wait"
  /\ waitOk => child[r] # "running"
  /\ LET st == TerminalStatus(waitOk, child[r] = "exit_ok", sup[r].received_signal)
     IN sup' = [sup EXCEPT ![r] = Ended(@, "done", ReturnValue(st))]
  /\ child' = [child EXCEPT ![r] = Detached(@)]
  /\ kill_rx_alive' = [kill_rx_alive EXCEPT ![r] = FALSE]
  /\ UNCHANGED <<downloads, dir, kill_queue, updates, update_rx_alive, call, acked, delivered>>

\* --------------------------------------- cancel_download / pause_download

\* A cancel_download / pause_download pair with the two statuses exchanged.
TargetStatusSwapped(signal) == IF signal = "Cancel" THEN "Paused" ELSE "Canceled"

\* The status a signal stands for (lines 325/330 and 352/357).
TargetStatus(signal) == IF signal = "Cancel" THEN "Canceled" ELSE "Paused"

\* A match whose arm for a record that is present but not signallable
\* reported FailedToHalt.
DispatchHaltError(present, rec) ==
  IF present /\ rec.status = "Running" /\ rec.tx # NoTx THEN "send"
  ELSE IF present THEN "FailedToHalt"
  ELSE "NotDownloading"

\* Lines 315-336: the match on what remove() returned: only a record that is
\* Running and holds a sender is signalled.
Dispatch(present, rec) ==
  IF present /\ rec.status = "Running" /\ rec.tx # NoTx THEN "send" ELSE "NotDownloading"

\* A channel whose send succeeded with or without a receiver.
SendAlwaysOk(rxAlive) == "Ok"

\* Sender::send on the control channel: Err once the receiver was dropped.
SendResult(rxAlive) == IF rxAlive THEN "Ok" ELSE "Err"

\* A write-back that kept the sender in the record.
AcknowledgedKeepingSender(signal, held) ==
  Download(TargetStatus(signal), held.options, held.tx)

\* Lines 322-329: the record written back after a successful send.
Acknowledged(signal, held) == Download(TargetStatus(signal), held.options, NoTx)

\* What is left of a call that returned `value`.
Returned(c, value) == [IdleCall EXCEPT !.pc = "done", !.url = c.url, !.res = value]

\* Line 314 (341): downloads.remove(&url) and the match on its result.  The
\* record leaves the map whatever it held.
SignalStart(c, signal, k) ==
  /\ call[c].pc = "idle"
  /\ \A q \in Calls : q < c => call[q].pc # "idle"
  /\ Started < TaskLimit(\E r \in Runs : sup[r].update_tx)
  /\ LET present == k \in DOMAIN downloads
         rec == IF present THEN downloads[k] ELSE NoDownload
         arm == Dispatch(present, rec)
     IN call' = [call EXCEPT ![c] =
                   IF arm = "send"
                   THEN [pc |-> "sending", signal |-> signal, url |-> k, held |-> rec,
                         res |-> "-"]
                   ELSE Returned([@ EXCEPT !.url = k], arm)]
  /\ downloads' = Remove(downloads, k)
  /\ UNCHANGED <<dir, sup, child, kill_queue, kill_rx_alive, updates, update_rx_alive,
                 acked, delivered>>

cancel_download(c, k) == SignalStart(c, "Cancel", k)

pause_download(c, k) == SignalStart(c, "Pause", k)

\* Line 320 (347): tx.send(signal).await on the sender taken from the record.
SignalSend(c) ==
  /\ call[c].pc = "sending"
  /\ LET tx == call[c].held.tx
     IN IF SendResult(kill_rx_alive[tx]) = "Ok"
        THEN /\ Len(kill_queue[tx]) < KillChannelCapacity
             /\ kill_queue' = [kill_queue EXCEPT ![tx] = Append(@, call[c].signal)]
             /\ call' = [call EXCEPT ![c].pc = "inserting"]
        ELSE /\ call' = [call EXCEPT ![c] = Returned(@, "FailedToHalt")]
             /\ kill_queue' = kill_queue
  /\ UNCHANGED <<downloads, dir, sup, child, kill_rx_alive, updates, update_rx_alive,
                 acked, delivered>>

\* Lines 321-331 (348-358): the record is written back with the signal's
\* status and no sender, and that status is returned.
SignalInsert(c) ==
  /\ call[c].pc = "inserting"
  /\ downloads' = Insert(downloads, call[c].url, Acknowledged(call[c].signal, call[c].held))
  /\ call' = [call EXCEPT ![c] = Returned(@, TargetStatus(call[c].signal))]
  /\ acked' = [acked EXCEPT ![call[c].url] = TRUE]
  /\ UNCHANGED <<dir, sup, child, kill_queue, kill_rx_alive, updates, update_rx_alive,
                 delivered>>

\* ------------------------------------------------ check_url_availability

\* Lines 376-389: Ok when `yt-dlp --simulate` exits successfully, FailedCheck
\* when it exits unsuccessfully, General when it cannot be launched.
CheckUrlAvailability(k, launched) ==
  IF ~launched THEN "General"
  ELSE IF k \in UnavailableUrls THEN "FailedCheck"
  ELSE "Ok"

\* ---------------------------------------------------- progress subscriber

\* The receiving side of the progress channel takes the oldest message.
Drain ==
  /\ update_rx_alive
  /\ updates # <<>>
  /\ updates' = Tail(updates)
  /\ delivered' = [delivered EXCEPT ![Head(updates).from] = Head(updates).seq]
  /\ UNCHANGED <<downloads, dir, sup, child, kill_queue, kill_rx_alive,
                 update_rx_alive, call, acked>>

\* The receiving side goes away; what was queued is lost.
Disconnect ==
  /\ update_rx_alive
  /\ update_rx_alive' = FALSE
  /\ updates' = <<>>
  /\ UNCHANGED <<downloads, dir, sup, child, kill_queue, kill_rx_alive, call, acked, delivered>>

\* -------------------------------------------------------- specification

\* The steps of the engine for jobs submitted with progress sender `utx`.
Engine(utx) ==
  \/ \E r \in Runs, k \in Urls : Submit(r, k, utx)
  \/ \E r \in Runs, ok \in BOOLEAN : Spawn(r, ok)
  \/ \E r \in Runs, out \in NextLineResults : ReadLine(r, out)
  \/ \E r \in Runs, killOk \in BOOLEAN : Kill(r, killOk)
  \/ \E r \in Runs, ok \in BOOLEAN : ChildExit(r, ok)
  \/ \E r \in Runs : CleanupStep(r)
  \/ \E r \in Runs : Unwind(r)
  \/ \E r \in Runs, waitOk \in BOOLEAN : FinalWait(r, waitOk)
  \/ \E c \in Calls, k \in Urls : cancel_download(c, k)
  \/ \E c \in Calls, k \in Urls : pause_download(c, k)
  \/ \E c \in Calls : SignalSend(c)
  \/ \E c \in Calls : SignalInsert(c)

\* The engine with jobs submitted without a progress sender
\* (download_update_tx = None).
Next == Engine(FALSE)

Spec == Init /\ [][Next]_vars

\* The engine with jobs submitted with a progress sender, and the subscriber
\* at the other end of the progress channel.
ProgressNext ==
  \/ Engine(TRUE)
  \/ \E r \in Runs : Publish(r)
  \/ Drain
  \/ Disconnect

ProgressSpec == Init /\ [][ProgressNext]_vars

\* The progress pattern at work: one publishing job whose child prints lines
\* drawn from the lines of the model, and the subscriber, which takes the
\* records or goes away.
ParseNext ==
  \/ \E k \in Urls : Submit(1, k, TRUE)
  \/ Spawn(1, TRUE)
  \/ \E l \in KnownLines : ReadLine(1, SomeLine(l))
  \/ Publish(1)
  \/ Drain
  \/ Disconnect

ParseSpec == Init /\ [][ParseNext]_vars

\* One publishing job from its submission to its end, the cancel_download and
\* pause_download calls made meanwhile, and the subscriber.
OneJobNext ==
  \/ \E k \in Urls : Submit(1, k, TRUE)
  \/ \E ok \in BOOLEAN : Spawn(1, ok)
  \/ \E out \in NextLineResults : ReadLine(1, out)
  \/ Publish(1)
  \/ \E killOk \in BOOLEAN : Kill(1, killOk)
  \/ \E ok \in BOOLEAN : ChildExit(1, ok)
  \/ CleanupStep(1)
  \/ Unwind(1)
  \/ \E waitOk \in BOOLEAN : FinalWait(1, waitOk)
  \/ \E c \in Calls, k \in Urls : cancel_download(c, k)
  \/ \E c \in Calls, k \in Urls : pause_download(c, k)
  \/ \E c \in Calls : SignalSend(c)
  \/ \E c \in Calls : SignalInsert(c)
  \/ Drain
  \/ Disconnect

OneJobSpec == Init /\ [][OneJobNext]_vars

\* What the runtime and the operating system guarantee to that job: a task
\* that can take its next step takes it (tokio polls a ready task); a pipe
\* whose writer is gone delivers its end once the buffered lines are read; a
\* wait on a child that is gone returns.  Nothing is assumed of the callers
\* nor of the subscriber, which are not the engine's code.
OneJobFairness ==
  /\ WF_vars(\E ok \in BOOLEAN : Spawn(1, ok))
  /\ WF_vars(ReadLine(1, EndOfStream))
  /\ WF_vars(Publish(1))
  /\ WF_vars(\E killOk \in BOOLEAN : Kill(1, killOk))
  /\ WF_vars(\E ok \in BOOLEAN : ChildExit(1, ok))
  /\ WF_vars(CleanupStep(1))
  /\ WF_vars(Unwind(1))
  /\ WF_vars(FinalWait(1, TRUE))

OneJobLiveSpec == OneJobSpec /\ OneJobFairness

\* --------------------------------------------------------------- properties

\* Steps, told by the task whose position changes.
SubmitStep(r, k) == sup[r].pc = "idle" /\ sup'[r].pc # "idle" /\ sup'[r].url = k
CallStep(c, k) == call[c].pc = "idle" /\ call'[c].pc # "idle" /\ call'[c].url = k
SendStep(c) == call[c].pc = "sending" /\ call'[c].pc # "sending"
InsertStep(c) == call[c].pc = "inserting" /\ call'[c].pc = "done"
Finished(r) == sup[r].pc \in {"done", "panicked"}

\* C1: in every reachable state each record of the registry holds a sender
\* (tx is Some) if and only if its status is Running.
C1_SenderIffRunning ==
  \A k \in DOMAIN downloads :
    (downloads[k].tx # NoTx) <=> (downloads[k].status = "Running")

\* C1 witness: a Running record with its sender next to a Canceled or Paused
\* record without one, after a supervisor has returned.
C1_Witness ==
  /\ \E k \in DOMAIN downloads :
       downloads[k].status = "Running" /\ downloads[k].tx # NoTx
  /\ \E k \in DOMAIN downloads :
       downloads[k].status \in {"Canceled", "Paused"} /\ downloads[k].tx = NoTx
  /\ \E r \in Runs : sup[r].pc = "done"

\* C2: a submission for a key whose record is Running or Checking fails with
\* DownloadAlreadyPresent and leaves the registry as it was; a submission for
\* an absent key or one whose record is Canceled, Paused, Completed or Failed
\* succeeds and registers the job.
C2_SubmitRejectsActive ==
  [][\A r \in Runs, k \in Urls :
       SubmitStep(r, k) =>
         IF k \in DOMAIN downloads /\ downloads[k].status \in {"Running", "Checking"}
         THEN /\ downloads' = downloads
              /\ sup'[r].returned = "DownloadAlreadyPresent"
         ELSE /\ k \in DOMAIN downloads'
              /\ downloads'[k].tx = r]_vars

\* C2 witness: two supervisors at work on one key, the record holding the
\* sender of the later one.
C2_Witness ==
  \E r, q \in Runs :
    /\ r < q
    /\ sup[r].url = sup[q].url
    /\ child[r] = "running" /\ child[q] = "running"
    /\ sup[q].url \in DOMAIN downloads
    /\ downloads[sup[q].url] = Download("Running", RequestOptions(sup[q].url), q)

\* C3: a cancel_download (pause_download) whose send succeeded returns Canceled
\* (Paused) and leaves the key's record Canceled (Paused) without a sender,
\* whatever the supervisor has done by then; and a cancel or pause that
\* follows an acknowledged one on the same key, with no submission in
\* between, returns NotDownloading.
C3_AcknowledgedThenNotDownloading ==
  [][/\ \A c \in Calls :
          InsertStep(c) =>
            LET target == IF call[c].signal = "Cancel" THEN "Canceled" ELSE "Paused"
                k == call[c].url
            IN /\ call'[c].res = target
               /\ k \in DOMAIN downloads'
               /\ downloads'[k].status = target
               /\ downloads'[k].tx = NoTx
     /\ \A c \in Calls, k \in Urls :
          CallStep(c, k) /\ acked[k] =>
            call'[c].pc = "done" /\ call'[c].res = "NotDownloading"]_vars

\* C3 witness: a cancel was acknowledged while the child was still running,
\* and a later call on the same key, which took the Canceled record out of
\* the map, returned NotDownloading.
C3_Witness ==
  \E k \in Urls, c1, c2 \in Calls, r \in Runs :
    /\ c1 < c2
    /\ call[c1].url = k /\ call[c1].res = "Canceled"
    /\ call[c2].url = k /\ call[c2].res = "NotDownloading"
    /\ acked[k] /\ k \notin DOMAIN downloads
    /\ sup[r].url = k /\ child[r] = "running"

\* C4: cancel_download and pause_download on a key that is absent, or whose
\* record has status None, Completed, Failed, Canceled or Paused or holds no
\* sender, return NotDownloading and put no signal in any channel.
C4_NotDownloadingSendsNothing ==
  [][\A c \in Calls, k \in Urls :
       (/\ CallStep(c, k)
        /\ \/ k \notin DOMAIN downloads
           \/ downloads[k].status \in {"None", "Completed", "Failed", "Canceled", "Paused"}
           \/ downloads[k].tx = NoTx)
       => /\ call'[c].pc = "done"
          /\ call'[c].res = "NotDownloading"
          /\ kill_queue' = kill_queue]_vars

\* C4 witness: a call on a key with a Paused record and a call on an absent
\* key both returned NotDownloading, and no channel holds a signal but the
\* one of the acknowledged pause.
C4_Witness ==
  \E k \in Urls, c1, c2 \in Calls, r \in Runs :
    /\ c1 < c2
    /\ call[c1].url = k /\ call[c1].res = "Paused"
    /\ call[c2].url = k /\ call[c2].res = "NotDownloading"
    /\ k \notin DOMAIN downloads
    /\ sup[r].url = k /\ kill_queue[r] = <<"Pause">>
    /\ \A q \in Runs \ {r} : kill_queue[q] = <<>>

\* C5: cancel_download or pause_download on a record that is Running with a
\* sender returns FailedToHalt exactly when the receiver of that sender's
\* channel has been dropped, that is when the supervisor of that run has
\* ended; while the supervisor holds the receiver the send succeeds and the
\* signal is queued.
C5_FailedToHaltIffReceiverDropped ==
  [][\A c \in Calls :
       SendStep(c) =>
         LET tx == call[c].held.tx
         IN /\ call[c].held.status = "Running" /\ tx \in Runs
            /\ kill_rx_alive[tx] <=> ~Finished(tx)
            /\ kill_rx_alive[tx] =>
                 /\ call'[c].pc = "inserting"
                 /\ kill_queue' = [kill_queue EXCEPT ![tx] = Append(@, call[c].signal)]
            /\ ~kill_rx_alive[tx] =>
                 /\ call'[c].pc = "done" /\ call'[c].res = "FailedToHalt"
                 /\ kill_queue' = kill_queue]_vars

\* C5 witness: a call on the record of a supervisor that had returned got
\* FailedToHalt.
C5_Witness ==
  \E c \in Calls, r \in Runs :
    /\ call[c].res = "FailedToHalt"
    /\ sup[r].url = call[c].url
    /\ sup[r].pc = "done"
    /\ ~kill_rx_alive[r]

\* C6: the status download_from_options returns follows the terminal-status
\* rule: Completed when the child exited successfully and no signal was
\* consumed; Failed when it exited unsuccessfully and none was consumed;
\* Canceled (Paused) when it exited unsuccessfully after a Cancel (Pause) was
\* consumed.
C6_ReturnsTerminalStatus ==
  [][\A r \in Runs :
       (sup[r].pc = "wait" /\ sup'[r].pc = "done") =>
         LET sig == sup[r].received_signal
             failed == child[r] \in {"exit_fail", "killed"}
         IN /\ (child[r] = "exit_ok" /\ sig = "None") => sup'[r].returned = "Completed"
            /\ (failed /\ sig = "None") => sup'[r].returned = "Failed"
            /\ (failed /\ sig = "Cancel") => sup'[r].returned = "Canceled"
            /\ (failed /\ sig = "Pause") => sup'[r].returned = "Paused"]_vars

\* C6 witness: a supervisor whose child exited unsuccessfully, with no signal
\* consumed, is about to return.
C6_Witness ==
  \E r \in Runs :
    sup[r].pc = "wait" /\ child[r] = "exit_fail" /\ sup[r].received_signal = "None"

\* C7: once the supervisor of a run has returned, the record of its key is
\* no longer the Running record of that run: if the key still has a record
\* and no later run was submitted for it, the record is Completed, Failed,
\* Canceled or Paused and holds no sender.
C7_ReturnLeavesNoRunningRecord ==
  \A r \in Runs :
    (/\ sup[r].pc = "done"
     /\ sup[r].url \in DOMAIN downloads
     /\ \A q \in Runs : q > r => sup[q].url # sup[r].url)
    => /\ downloads[sup[r].url].status \in {"Completed", "Failed", "Canceled", "Paused"}
       /\ downloads[sup[r].url].tx = NoTx

\* C7 witness: a supervisor returned and the child it supervised is gone.
C7_Witness ==
  \E r \in Runs : sup[r].pc = "done" /\ child[r] = "gone"

\* C8: the availability precheck decides before a job may run: for a url
\* whose precheck fails with FailedCheck the record never becomes the Running
\* record of that submission and no download process is spawned for it.
C8_FailedCheckNeverRuns ==
  \A r \in Runs :
    (sup[r].pc # "idle" /\ CheckUrlAvailability(sup[r].url, TRUE) = "FailedCheck")
    => /\ child[r] = "none"
       /\ ~(/\ sup[r].url \in DOMAIN downloads
            /\ downloads[sup[r].url].status = "Running"
            /\ downloads[sup[r].url].tx = r)

\* C8 witness: the downloader runs for an unavailable url.
C8_Witness ==
  \E r \in Runs : sup[r].url \in UnavailableUrls /\ child[r] = "running"

\* C9: when the supervisor consumed a Cancel and the output file name was
\* resolved, the cleanup removes every entry of the download directory whose
\* name contains that name and leaves every other entry (stated for the
\* cleanups in which the directory could be listed and no deletion was
\* refused by the file system).
C9_CancelRemovesMatching ==
  [][\A r \in Runs :
       (/\ sup[r].pc = "cleanup" /\ sup'[r].pc # "cleanup"
        /\ sup'[r].download_file_name.some
        /\ sup'[r].scan \notin {"unreadable", "partial"})
       => dir' = {f \in dir : ~Contains(f, sup'[r].download_file_name.name)}]_vars

\* C9 witness: a cleanup that resolved the name "a" ended in a panic with the
\* matching entry still in the directory.
C9_Witness ==
  \E r \in Runs :
    /\ sup[r].pc = "unwind"
    /\ sup[r].download_file_name = SomeName(NameA)
    /\ NameAPart \in dir

\* C10: a pause leaves the record Paused and the supervisor deletes nothing
\* for it: the download directory changes only in the cleanup step of a
\* supervisor that consumed a Cancel, and the cleanup is entered for no other
\* signal and not without one.
C10_PauseTouchesNoFile ==
  [][/\ \A c \in Calls :
          (InsertStep(c) /\ call[c].signal = "Pause") =>
            /\ call[c].url \in DOMAIN downloads'
            /\ downloads'[call[c].url].status = "Paused"
     /\ dir' # dir =>
          \E r \in Runs :
            /\ sup[r].pc = "cleanup" /\ sup'[r].pc # "cleanup"
            /\ sup[r].received_signal = "Cancel"
     /\ \A r \in Runs :
          sup'[r].pc = "cleanup" => sup'[r].received_signal = "Cancel"]_vars

\* C10 witness: a supervisor consumed a Pause and killed its child, the
\* record is Paused and the directory still holds every file.
C10_Witness ==
  \E r \in Runs :
    /\ sup[r].pc = "wait"
    /\ sup[r].received_signal = "Pause"
    /\ child[r] = "killed"
    /\ sup[r].url \in DOMAIN downloads
    /\ downloads[sup[r].url].status = "Paused"
    /\ dir = FileNames

\* C11: the registry mutation of cancel_download / pause_download is one
\* atomic step: between the lookup of the Running record and the write of
\* Canceled / Paused the key is never absent from the map, and the write
\* never replaces the Running record of a submission made in between.
C11_SignalIsAtomic ==
  [][/\ \A c \in Calls :
          call'[c].pc \in {"sending", "inserting"} => call'[c].url \in DOMAIN downloads'
     /\ \A c \in Calls :
          InsertStep(c) =>
            ~(/\ call[c].url \in DOMAIN downloads
              /\ downloads[call[c].url].status = "Running"
              /\ downloads[call[c].url].tx # call[c].held.tx)]_vars

\* C11 witness: a cancel aimed at an earlier run wrote Canceled over the
\* record of a later submission, whose child runs on, unsignalled and with
\* no sender left in the map.
C11_Witness ==
  \E c \in Calls, r, q \in Runs :
    /\ r < q
    /\ sup[r].url = sup[q].url /\ call[c].url = sup[q].url
    /\ call[c].res = "Canceled"
    /\ kill_queue[q] = <<>> /\ sup[q].pc = "reading" /\ child[q] = "running"
    /\ sup[q].url \in DOMAIN downloads
    /\ downloads[sup[q].url] = Download("Canceled", RequestOptions(sup[q].url), NoTx)

\* C12: a sender stored in the registry proves active supervision: if a key's
\* record holds a sender, exactly one download_from_options task for that key
\* is still at work, and it is the one holding the receiver of that sender's
\* channel.
C12_SenderProvesSupervision ==
  \A k \in DOMAIN downloads :
    downloads[k].tx # NoTx =>
      /\ downloads[k].tx \in Runs
      /\ sup[downloads[k].tx].url = k
      /\ ~Finished(downloads[k].tx)
      /\ kill_rx_alive[downloads[k].tx]
      /\ Cardinality({q \in Runs : sup[q].url = k /\ sup[q].pc # "idle" /\ ~Finished(q)}) = 1

\* C12 witness: the only supervisor of a key has returned, its child is gone,
\* its receiver dropped, and the record still holds its sender.
C12_Witness ==
  \E r \in Runs :
    /\ sup[r].pc = "done" /\ child[r] = "gone" /\ ~kill_rx_alive[r]
    /\ \A q \in Runs \ {r} : sup[q].url # sup[r].url
    /\ sup[r].url \in DOMAIN downloads
    /\ downloads[sup[r].url].tx = r

\* C13: publishing a progress record never blocks the supervisor: whenever a
\* supervisor stands at the send of a record, the send can complete at once
\* (with the channel absent, closed, full or undrained), so that it goes on to
\* read the next line and poll its control channel.
C13_PublishNeverBlocks ==
  \A r \in Runs : sup[r].pc = "publish" => ENABLED Publish(r)

\* C13 witness: a supervisor stands at the send with the progress channel
\* full and its receiver alive, while a Cancel waits unread in its control
\* channel and its child runs on.
C13_Witness ==
  \E r \in Runs :
    /\ sup[r].pc = "publish"
    /\ update_rx_alive /\ Len(updates) = UpdateCap
    /\ kill_queue[r] = <<"Cancel">>
    /\ child[r] = "running"

\* The records of task r waiting in the progress channel, oldest first.
Waiting(r) ==
  LET Mine(m) == m.from = r
  IN SelectSeq(updates, Mine)

\* C14: for each run the progress records reach the subscriber in the order
\* in which their source lines were read: the records of a run waiting in
\* the channel carry the line numbers that follow the last one delivered, one
\* by one, each is the record of a progress line of that run's url, and while
\* the subscriber listens they account for exactly the lines the run has read
\* (but for the one it is about to send).
C14_RecordsInLineOrder ==
  \A r \in Runs :
    /\ \A i \in 1..Len(Waiting(r)) :
         /\ Waiting(r)[i].seq = delivered[r] + i
         /\ \E l \in KnownLines :
              /\ IsProgress(l)
              /\ Waiting(r)[i].progress = DownloadProgress(sup[r].url, CapturesOf[l])
    /\ (sup[r].pc # "idle" /\ ~Finished(r)) =>
         /\ delivered[r] + Len(Waiting(r)) <= sup[r].seq
         /\ update_rx_alive =>
              delivered[r] + Len(Waiting(r))
                = sup[r].seq - (IF sup[r].pc = "publish" THEN 1 ELSE 0)

\* C14 witness: the subscriber has taken the record of a run's first line
\* and the record of its second line waits in the channel.
C14_Witness ==
  \E r \in Runs :
    /\ delivered[r] = 1
    /\ Len(Waiting(r)) = 1
    /\ Waiting(r)[1].seq = 2
    /\ sup[r].seq = 2

\* C15: a supervisor consumes at most one signal in a run: a signal leaves a
\* control channel only when the supervisor of that channel, having consumed
\* none yet, polls it from the read loop; and once it has consumed one it is
\* past the loop (killing, cleaning up, unwinding or at the final wait) and
\* never reads or polls again.
C15_OneSignalPerRun ==
  [][\A r \in Runs :
       /\ kill_queue'[r] # kill_queue[r] /\ Len(kill_queue'[r]) <= Len(kill_queue[r])
            => /\ sup[r].pc = "reading" /\ sup[r].received_signal = "None"
               /\ kill_queue'[r] = Tail(kill_queue[r])
               /\ sup'[r].received_signal = Head(kill_queue[r])
               /\ sup'[r].pc = "kill"
       /\ sup'[r].received_signal # "None"
            => sup'[r].pc \in {"kill", "cleanup", "unwind", "wait"}
       /\ sup[r].received_signal # "None"
            => sup'[r].received_signal \in {sup[r].received_signal, "None"}]_vars

\* C15 witness: a supervisor that consumed a Pause has left the loop and
\* stands at the final wait, its channel empty.
C15_Witness ==
  \E r \in Runs :
    /\ sup[r].received_signal = "Pause"
    /\ sup[r].pc = "wait"
    /\ kill_queue[r] = <<>>
    /\ kill_rx_alive[r]

\* C16: a failed spawn of the downloader is confined to the job and surfaced
\* as the error FailedToStart: the call returns it and does not panic.
C16_SpawnFailureIsReturned ==
  [][\A r \in Runs :
       (sup[r].pc = "spawn" /\ sup'[r].pc # "spawn" /\ child'[r] = "none")
       => sup'[r].pc = "done" /\ sup'[r].returned = "FailedToStart"]_vars

\* C16 witness: a task panicked without ever having had a child.
C16_Witness ==
  \E r \in Runs : sup[r].pc = "panicked" /\ child[r] = "none"

\* C17: no error met during the cancellation cleanup (listing the directory,
\* reading an entry, converting its name, deleting a file) aborts the
\* cancellation: the supervisor leaves the cleanup for the final wait on its
\* child.
C17_CleanupErrorsDoNotAbort ==
  [][\A r \in Runs :
       (sup[r].pc = "cleanup" /\ sup'[r].pc # "cleanup") => sup'[r].pc = "wait"]_vars

\* C17 witness: a supervisor that consumed a Cancel is unwinding from a panic
\* raised by an entry of the directory.
C17_Witness ==
  \E r \in Runs :
    /\ sup[r].pc = "unwind"
    /\ sup[r].received_signal = "Cancel"
    /\ sup[r].scan = "aborted"

\* The record of key k is not the same before and after a step.
RecordChanged(k) ==
  \/ (k \in DOMAIN downloads) # (k \in DOMAIN downloads')
  \/ k \in DOMAIN downloads /\ k \in DOMAIN downloads' /\ downloads'[k] # downloads[k]

\* C18: an operation on one key leaves the record of every other key as it
\* was: a record changes only in a submission for its key or in a step of a
\* cancel_download / pause_download on its key; a supervisor's progress, its
\* return and its panic change no record.
C18_OtherKeysUnchanged ==
  [][\A k \in Urls :
       RecordChanged(k) =>
         \/ \E r \in Runs : SubmitStep(r, k)
         \/ \E c \in Calls : CallStep(c, k)
         \/ \E c \in Calls : InsertStep(c) /\ call[c].url = k]_vars

\* C18 witness: with jobs on two keys, the one was paused and the record of
\* the other is still the Running record of its submission.
C18_Witness ==
  \E k1, k2 \in DOMAIN downloads, r \in Runs :
    /\ k1 # k2
    /\ downloads[k1].status = "Paused"
    /\ sup[r].url = k2
    /\ downloads[k2] = Download("Running", RequestOptions(k2), r)

\* A supervisor that stands at the read of its next line, publishes, has no
\* signal waiting and may still be sent a progress line.
ReadyToParse(r) ==
  /\ sup[r].pc = "reading"
  /\ sup[r].update_tx
  /\ kill_queue[r] = <<>>
  /\ sup[r].seq < MaxLines

\* C19: the line `[download] 100% of 5.00MiB at 900.00KiB/s ETA Unknown`
\* (whole percentage, one blank before the size, no "~") yields a progress
\* record, whose eta is "Unknown": a supervisor that reads it goes on to send
\* that record.
C19_SingleSpaceLineParsed ==
  \A r \in Runs :
    ReadyToParse(r) =>
      ENABLED (/\ ReadLine(r, SomeLine(LineSingleSpace))
               /\ sup'[r].pc = "publish"
               /\ DownloadProgress(sup'[r].url, CapturesOf[sup'[r].line]).eta = Unknown)

\* C19 witness: a publishing supervisor is about to read a line of its
\* running child.
C19_Witness ==
  \E r \in Runs : ReadyToParse(r) /\ child[r] = "running" /\ sup[r].seq = 1

\* C20: the line `[download] 12.3% of ~ 10.00MiB at 1.20MiB/s ETA 00:05`
\* yields the record with percent "12.3", size_downloaded "10.00MiB", speed
\* "1.20MiB/s" and eta "00:05": that is the record a supervisor sends for it.
C20_TildeLineParsed ==
  [][\A r \in Runs :
       (/\ sup[r].pc = "publish" /\ sup[r].line = LineTilde
        /\ sup'[r].pc = "reading"
        /\ update_rx_alive)
       => /\ Len(updates') = Len(updates) + 1
          /\ updates'[Len(updates')].from = r
          /\ updates'[Len(updates')].progress =
               [url |-> sup[r].url,
                percent |-> <<"1", "2", ".", "3">>,
                size_downloaded |-> <<"1", "0", ".", "0", "0", "M", "i", "B">>,
                speed |-> <<"1", ".", "2", "0", "M", "i", "B", "/", "s">>,
                eta |-> <<"0", "0", ":", "0", "5">>]]_vars

\* C20 witness: a supervisor matched that line and stands at the send of its
\* record.
C20_Witness ==
  \E r \in Runs : sup[r].pc = "publish" /\ sup[r].line = LineTilde

\* C21: a line that does not match the progress pattern yields no record, no
\* message and no error: a supervisor in the read loop with no signal waiting
\* reads any such line and stands where it stood, the progress channel as it
\* was; and a supervisor at the send holds a line that matched, of which the
\* record it sends is made.
C21_NoMarkerNoRecord ==
  \A r \in Runs :
    /\ (sup[r].pc = "reading" /\ kill_queue[r] = <<>>) =>
         \A l \in KnownLines :
           ~CapturesOf[l].matched =>
             ENABLED (/\ ReadLine(r, SomeLine(l))
                      /\ sup'[r] = sup[r]
                      /\ updates' = updates)
    /\ sup[r].pc = "publish" => CapturesOf[sup[r].line].matched
    /\ \A i \in 1..Len(Waiting(r)) :
         \E l \in KnownLines :
           /\ CapturesOf[l].matched
           /\ Waiting(r)[i].progress = DownloadProgress(sup[r].url, CapturesOf[l])

\* C21 witness: a publishing supervisor with a running child stands in the
\* read loop after its first record was taken, nothing waiting in either
\* channel: lines without a marker are read here and nothing is sent.
C21_Witness ==
  \E r \in Runs :
    /\ sup[r].pc = "reading" /\ sup[r].update_tx
    /\ child[r] = "running"
    /\ kill_queue[r] = <<>>
    /\ delivered[r] = 1 /\ sup[r].seq = 1
    /\ updates = <<>>
    /\ update_rx_alive

\* C22: when a signal waits in its control channel as a supervisor reads an
\* output line, the supervisor takes the signal and goes to the kill in that
\* iteration, before the line is matched: the line is not published, and once
\* a supervisor has consumed a signal no record of its run enters the
\* progress channel any more.
C22_SignalBeforeParse ==
  [][\A r \in Runs :
       /\ (sup[r].pc = "reading" /\ kill_queue[r] # <<>> /\ sup'[r] # sup[r]) =>
            /\ updates' = updates
            /\ sup'[r].seq = sup[r].seq
            /\ sup'[r].pc \in {"kill", "wait"}
            /\ sup'[r].pc = "kill" =>
                 /\ sup'[r].received_signal = Head(kill_queue[r])
                 /\ kill_queue'[r] = Tail(kill_queue[r])
       /\ sup[r].received_signal # "None" =>
            /\ sup'[r].pc \notin {"reading", "publish"}
            /\ ~(/\ Len(updates') > Len(updates)
                 /\ updates'[Len(updates')].from = r)]_vars

\* C22 witness: a supervisor that had published a line took a Cancel on
\* reading its next line and stands at the kill, its child still running.
C22_Witness ==
  \E r \in Runs :
    /\ sup[r].pc = "kill"
    /\ sup[r].received_signal = "Cancel"
    /\ sup[r].update_tx /\ sup[r].seq = 1
    /\ child[r] = "running"

\* The output stream of the child of task r has ended or will end with no
\* further doing of the child: the child is gone.
StreamEnds(r) == child[r] \in {"exit_ok", "exit_fail", "killed"}

\* C23: a supervisor always terminates once the output stream of its child
\* ends: it leaves the read loop, waits on the child and returns, whether or
\* not a signal was ever sent.
C23_SupervisorReturns ==
  \A r \in Runs :
    (sup[r].pc \notin {"idle", "done"} /\ StreamEnds(r)) ~> (sup[r].pc = "done")

\* C23 witness: the child has exited and its supervisor stands at the send of
\* a progress record, the progress channel full and its receiver alive.
C23_Witness ==
  \E r \in Runs :
    /\ sup[r].pc = "publish"
    /\ StreamEnds(r)
    /\ update_rx_alive /\ Len(updates) = UpdateCap

\* C24: a failure of the kill (or of the wait after it) once a Cancel was
\* consumed does not change the cancellation: whatever the kill gave, the
\* supervisor goes on to the cleanup with everything else as it was; there,
\* with its child still running, it can remove the matching files and leave
\* the loop as it would with the child killed; and the value its run returns
\* is the one returned when kill and wait succeed.
C24_KillFailureKeepsPath ==
  /\ [](\A r \in Runs :
          /\ (sup[r].pc = "kill" /\ sup[r].received_signal = "Cancel") =>
               ENABLED (Kill(r, FALSE) /\ sup'[r].pc = "cleanup" /\ child'[r] = child[r])
          /\ (sup[r].pc = "cleanup" /\ child[r] = "running") =>
               ENABLED (/\ Cleanup(r, SomeName(NameA), TRUE, dir, FALSE, {})
                        /\ sup'[r].pc = "wait"
                        /\ dir' = {f \in dir : ~Contains(f, NameA)}))
  /\ [][\A r \in Runs :
          /\ (sup[r].pc = "kill" /\ sup[r].received_signal = "Cancel"
                 /\ sup'[r] # sup[r]) =>
               /\ sup'[r] = [sup[r] EXCEPT !.pc = "cleanup"]
               /\ dir' = dir /\ downloads' = downloads
          /\ (sup[r].pc = "wait" /\ sup[r].received_signal = "Cancel"
                 /\ sup'[r].pc = "done") =>
               sup'[r].returned = ReturnValue(TerminalStatus(TRUE, FALSE, "Cancel"))]_vars

\* C24 witness: the kill failed, the child runs on, and the supervisor has
\* removed the partial file and left the loop for the final wait.
C24_Witness ==
  \E r \in Runs :
    /\ sup[r].pc = "wait"
    /\ sup[r].received_signal = "Cancel"
    /\ sup[r].scan = "complete"
    /\ child[r] = "running"
    /\ NameAPart \notin dir

\* The places that hold the sender of task r's control channel and may still
\* send on it: records of the registry, and calls that took a record out and
\* have not sent yet.
Holders(r) ==
  Cardinality({k \in DOMAIN downloads : downloads[k].tx = r})
    + Cardinality({c \in Calls : call[c].pc = "sending" /\ call[c].held.tx = r})

\* The calls that took the record of task r out of the registry and have not
\* returned yet.
InFlight(r) ==
  {c \in Calls : call[c].pc \in {"sending", "inserting"} /\ call[c].held.tx = r}

C26_AcknowledgedCancelActedOn ==
  [][\A r \in Runs :
       (sup[r].pc = "wait" /\ sup'[r].pc = "done") => kill_queue[r] = <<>>]_vars

\* C26 witness: cancel_download returned Canceled and the registry says
\* Canceled, yet the run has returned with the Cancel unread in its channel,
\* its child having ended by itself and the partial file still in place.
C26_Witness ==
  \E r \in Runs, c \in Calls :
    /\ sup[r].pc = "done" /\ sup[r].returned = "Completed"
    /\ kill_queue[r] = <<"Cancel">>
    /\ child[r] = "gone"
    /\ call[c].pc = "done" /\ call[c].res = "Canceled" /\ call[c].url = sup[r].url
    /\ sup[r].url \in DOMAIN downloads
    /\ downloads[sup[r].url].status = "Canceled"
    /\ NameAPart \in dir

\* C27: a cancel_download or pause_download that fails leaves the registry
\* as it found it: a call that returns NotDownloading has changed nothing, and
\* when a call returns FailedToHalt the record it looked up is in the map with
\* the status and the options it had.
C27_FailedCallChangesNothing ==
  [][\A c \in Calls :
       /\ \A k \in Urls :
            (CallStep(c, k) /\ call'[c].pc = "done" /\ call'[c].res = "NotDownloading")
              => downloads' = downloads
       /\ (SendStep(c) /\ call'[c].pc = "done" /\ call'[c].res = "FailedToHalt") =>
            /\ call[c].url \in DOMAIN downloads'
            /\ downloads'[call[c].url].status = call[c].held.status
            /\ downloads'[call[c].url].options = call[c].held.options]_vars

\* C27 witness: a call on the key of a finished run returned FailedToHalt and
\* the key is no longer in the registry.
C27_Witness ==
  \E c \in Calls, r \in Runs :
    /\ call[c].pc = "done" /\ call[c].res = "FailedToHalt"
    /\ call[c].url = sup[r].url
    /\ sup[r].pc = "done"
    /\ call[c].url \notin DOMAIN downloads

\* A supervisor at work: submitted and neither returned nor panicked.
Supervising(r) == sup[r].pc \notin {"idle", "done", "panicked"}

\* C28: at most one supervisor is at work per key, and each stays
\* controllable: until a cancel_download / pause_download has taken its
\* sender to signal it, the record of its key is Running and holds the
\* sender of its own channel.
C28_OneControllableSupervisorPerKey ==
  \A r \in Runs :
    Supervising(r) =>
      /\ \A q \in Runs : (q # r /\ Supervising(q)) => sup[q].url # sup[r].url
      /\ (/\ kill_queue[r] = <<>>
          /\ sup[r].received_signal = "None"
          /\ InFlight(r) = {}
          /\ \A c \in Calls : ~(call[c].pc = "done" /\ call[c].url = sup[r].url))
         => /\ sup[r].url \in DOMAIN downloads
            /\ downloads[sup[r].url].status = "Running"
            /\ downloads[sup[r].url].tx = r

\* C28 witness: two supervisors read the output of two running children for
\* one key, no cancel or pause was ever called, and the record holds the
\* sender of the later one.
C28_Witness ==
  \E r1, r2 \in Runs :
    /\ r1 < r2
    /\ sup[r1].url = sup[r2].url
    /\ sup[r1].pc = "reading" /\ sup[r2].pc = "reading"
    /\ child[r1] = "running" /\ child[r2] = "running"
    /\ downloads[sup[r1].url].tx = r2
    /\ \A c \in Calls : call[c].pc = "idle"

\* C29: the cleanup deletes no file unrelated to the job: when the dry run
\* that resolves the file name fails, or succeeds and prints no name, the
\* cleanup step removes no entry of the download directory.
C29_UnresolvedNameDeletesNothing ==
  [][\A r \in Runs :
       (/\ sup[r].pc = "cleanup" /\ sup'[r].pc # "cleanup"
        /\ sup'[r].download_file_name \in {NoName, SomeName(Empty)})
       => dir' = dir]_vars

\* C29 witness: the dry run printed nothing, the cleanup ran to its end with
\* the empty name and the download directory is empty: the file of another
\* download is gone with the rest.
C29_Witness ==
  \E r \in Runs :
    /\ sup[r].pc = "wait"
    /\ sup[r].received_signal = "Cancel"
    /\ sup[r].download_file_name = SomeName(Empty)
    /\ sup[r].scan = "complete"
    /\ dir = {}

====
